---- MODULE Spec2Model ----
(***************************************************************************)
(* Selection-to-analysis coordination of the EmbeddingPanel component      *)
(* (Frontend/src/components/panels/EmbeddingPanel.tsx).                    *)
(*                                                                         *)
(* The panel is a React function component.  Every event handler, effect,  *)
(* timer callback and promise continuation runs to completion on the       *)
(* single JavaScript thread, and the state setters it calls are applied    *)
(* together in one commit, so each of them is one action here.  A handler  *)
(* reads the state of the render that created it; a timer callback and an  *)
(* async function keep the values (analysisType, model, dataset) of the    *)
(* render in which they were created.                                      *)
(*                                                                         *)
(* A nullable value is a sequence of length at most one: null is <<>>.     *)
(***************************************************************************)
EXTENDS Integers, Sequences, FiniteSets, TLC

VARIABLES
    mounted,                \* the component is mounted
    model,                  \* prop model
    dataset,                \* prop dataset ("" when not set)
    availableFiles,         \* prop availableFiles (the file universe)
    is3D,                   \* useState is3D (the 3D switch)
    reductionMethod,        \* useState reductionMethod
    embeddingData,          \* useEmbedding().embeddingData, null or a projection
    isLoading,              \* useEmbedding().isLoading
    projection,             \* the fetchEmbeddings call of the latest step, or null
    analysisType,           \* useState analysisType
    selectedByAngle,        \* useState selectedByAngle (3D, angle-range selection)
    selectedPoints2D,       \* useState selectedPoints2D (2D, planar selection)
    audioFrequencyAnalysis, \* useState result slot, null or a response
    batchPrediction,        \* useState result slot, null or a response
    whisperAnalysis,        \* useState result slot, null or a response
    isLoadingAnalysis,      \* useState isLoadingAnalysis
    analysisError,          \* useState analysisError, null or a message
    debounceRef,            \* useRef debounceRef.current: 0 (null) or a timer id
    timers,                 \* pending setTimeout callbacks of the panel
    inflight,               \* fetch requests awaiting their response
    timerSeq,               \* number of timers created so far (ids are 1, 2, ...)
    lastUpdate,             \* history: elements of the last payload given to each mode
    burst                   \* history: the selection changes since the last timer ran:
                            \* how many, the elements of the last one, and whether
                            \* the timer has run since

slots == <<audioFrequencyAnalysis, batchPrediction, whisperAnalysis>>

selections == <<selectedByAngle, selectedPoints2D>>

props == <<model, dataset>>

embeddingState == <<availableFiles, reductionMethod, embeddingData, isLoading>>

vars == <<mounted, model, dataset, availableFiles, is3D, reductionMethod, embeddingData,
          isLoading, projection, analysisType, selectedByAngle, selectedPoints2D,
          audioFrequencyAnalysis, batchPrediction, whisperAnalysis,
          isLoadingAnalysis, analysisError, debounceRef, timers, inflight,
          timerSeq, lastUpdate, burst>>

(***************************************************************************)
(* Bounds and input sets.                                                  *)
(***************************************************************************)
\* Number of debounce timers (real selection changes) in one run.
MaxTimers == 2

\* File identifiers of the visualization.
Files == {"a", "b"}

\* Model identifiers: the ones the parent passes to the panel in this model,
\* and a wider set on which the functions of the model identifier are checked.
Models == {"wav2vec2", "whisper-base"}

ModelIds == Models \cup {"whisper-large-v3", "openai/whisper", "hubert", "wav2vec2-large", ""}

Datasets == {"common-voice"}

\* Dataset identifiers the parent may pass later; "" is a dataset that is not set.
DatasetIds == Datasets \cup {"ravdess", ""}

\* Values of the prop availableFiles.
FileUniverses == {<<>>, <<"a">>, <<"a", "b">>}

\* The items of the reduction method Select.
ReductionMethods == {"pca", "umap", "tsne"}

HttpStatuses == {500}

HttpBodies == {"server error"}

TransportMessages == {"Failed to fetch"}

null == <<>>

Some(v) == <<v>>

SetOf(seq) == {seq[i] : i \in 1..Len(seq)}

\* The arrays a visualization can emit: file identifiers without repetition,
\* in any order.
Payloads ==
    {s \in UNION {[1..n -> Files] : n \in 0..Cardinality(Files)} :
        Cardinality(SetOf(s)) = Len(s)}

(***************************************************************************)
(* Array.prototype.sort() and join(',') on arrays of strings.              *)
(***************************************************************************)
\* UTF-16 code unit of the characters that occur in Files.
CharCode(c) == CASE c = "," -> 44 [] c = "a" -> 97 [] c = "b" -> 98

\* s < t in the default sort order: code unit by code unit, a proper prefix first.
RECURSIVE StrLess(_, _)
StrLess(s, t) ==
    IF Len(t) = 0 THEN FALSE
    ELSE IF Len(s) = 0 THEN TRUE
    ELSE LET cs == CharCode(SubSeq(s, 1, 1))
             ct == CharCode(SubSeq(t, 1, 1))
         IN  IF cs < ct THEN TRUE
             ELSE IF cs > ct THEN FALSE
             ELSE StrLess(SubSeq(s, 2, Len(s)), SubSeq(t, 2, Len(t)))

RECURSIVE Insert(_, _)
Insert(x, seq) ==
    IF seq = <<>> THEN <<x>>
    ELSE IF StrLess(seq[1], x) THEN <<seq[1]>> \o Insert(x, Tail(seq))
    ELSE <<x>> \o seq

\* files.sort(): the array in ascending order.
RECURSIVE Sort(_)
Sort(seq) == IF seq = <<>> THEN <<>> ELSE Insert(Head(seq), Sort(Tail(seq)))

\* files.join(',')
RECURSIVE Join(_)
Join(seq) ==
    IF seq = <<>> THEN ""
    ELSE IF Len(seq) = 1 THEN seq[1]
    ELSE seq[1] \o "," \o Join(Tail(seq))

\* Variant: the key is built without sorting.
SelectionKeyUnsorted(files) == Join(files)

\* The key the handlers compare: files.sort().join(',')
SelectionKey(files) == Join(Sort(files))

\* str.includes(sub)
Includes(str, sub) ==
    \E i \in 0..(Len(str) - Len(sub)) : SubSeq(str, i + 1, i + Len(sub)) = sub

(***************************************************************************)
(* Analysis kinds that the model allows.                                   *)
(***************************************************************************)
AnalysisTypes == {"predictions", "common-terms", "audio-features"}

\* Variant: wav2vec2 is matched by substring, as whisper is.
getAvailableAnalysisTypesBySubstring(m) ==
    IF Includes(m, "wav2vec2") THEN <<"predictions", "audio-features">>
    ELSE IF Includes(m, "whisper") THEN <<"common-terms", "audio-features">>
    ELSE <<"audio-features">>

getAvailableAnalysisTypes(m) ==
    IF m = "wav2vec2" THEN <<"predictions", "audio-features">>
    ELSE IF Includes(m, "whisper") THEN <<"common-terms", "audio-features">>
    ELSE <<"audio-features">>

\* The items the analysis type Select offers.
SelectItems(m) ==
    (IF m = "wav2vec2" THEN {"predictions"} ELSE {})
        \cup (IF Includes(m, "whisper") THEN {"common-terms"} ELSE {})
        \cup {"audio-features"}

(***************************************************************************)
(* Initial state: the component after its first render and its effects.    *)
(* With analysisType 'audio-features' the model effect changes nothing.    *)
(***************************************************************************)
InitialState(datasets) ==
    /\ mounted = TRUE
    /\ model \in Models
    /\ dataset \in datasets
    /\ availableFiles = <<>>
    /\ is3D = FALSE
    /\ reductionMethod = "pca"
    /\ embeddingData = null
    /\ isLoading = FALSE
    /\ projection = null
    /\ analysisType = "audio-features"
    /\ selectedByAngle = <<>>
    /\ selectedPoints2D = <<>>
    /\ audioFrequencyAnalysis = null
    /\ batchPrediction = null
    /\ whisperAnalysis = null
    /\ isLoadingAnalysis = FALSE
    /\ analysisError = null
    /\ debounceRef = 0
    /\ timers = {}
    /\ inflight = {}
    /\ timerSeq = 0
    /\ lastUpdate = [mode \in {"angle", "2d"} |-> {}]
    /\ burst = null

Init == InitialState(Datasets)

(***************************************************************************)
(* The projection of the embeddings.  fetchEmbeddings belongs to the       *)
(* EmbeddingContext; the panel's part is when it calls it and with what.   *)
(***************************************************************************)
\* fetchEmbeddings(model, dataset, filesToProcess, reductionMethod, nComponents)
FetchEmbeddings(m, d, files, method, nComponents) ==
    projection' = Some([model |-> m, dataset |-> d, filenames |-> files,
                        method |-> method, nComponents |-> nComponents])

\* The step calls fetchEmbeddings nowhere.
NoFetchEmbeddings == projection' = null

\* The effect on [model, dataset, availableFiles, reductionMethod,
\* fetchEmbeddings], run after the render that follows a change of one of them.
EmbeddingEffect ==
    IF Len(availableFiles') > 0 /\ model' # "" /\ dataset' # ""
    THEN FetchEmbeddings(model', dataset', availableFiles', reductionMethod',
                         IF is3D' THEN 3 ELSE 2)
    ELSE NoFetchEmbeddings

(***************************************************************************)
(* clearAnalysisResults                                                    *)
(***************************************************************************)
clearAnalysisResults ==
    /\ audioFrequencyAnalysis' = null
    /\ batchPrediction' = null
    /\ whisperAnalysis' = null

(***************************************************************************)
(* The debounce timer.                                                     *)
(***************************************************************************)
\* Variant: the pending timer is not cleared.
ClearDebounceSkipped(pending) == pending

\* clearTimeout(debounceRef.current), guarded by if (debounceRef.current)
ClearDebounce(pending) ==
    IF debounceRef # 0 THEN {t \in pending : t.id # debounceRef} ELSE pending

\* setTimeout(() => {...}, 300): the callback keeps selectedFiles and, through
\* fetchAnalysis, the analysisType, model and dataset of the current render.
NewTimer(files) ==
    [id |-> timerSeq + 1, filenames |-> files, analysisType |-> analysisType,
     model |-> model, dataset |-> dataset]

\* Variant: the new timer is started and the previous one is left pending.
ScheduleDebounceKeepingPrevious(files) ==
    /\ timers' = timers \cup {NewTimer(files)}
    /\ debounceRef' = timerSeq + 1
    /\ timerSeq' = timerSeq + 1
    /\ burst' = Some([n |-> IF burst = null \/ burst[1].fired THEN 1 ELSE burst[1].n + 1,
                      last |-> SetOf(files), fired |-> FALSE])

ScheduleDebounce(files) ==
    /\ timers' = ClearDebounce(timers) \cup {NewTimer(files)}
    /\ debounceRef' = timerSeq + 1
    /\ timerSeq' = timerSeq + 1
    /\ burst' = Some([n |-> IF burst = null \/ burst[1].fired THEN 1 ELSE burst[1].n + 1,
                      last |-> SetOf(files), fired |-> FALSE])

(***************************************************************************)
(* handleAngleRangeSelect and handle2DSelectionChange.  sort() sorts the   *)
(* caller's array in place, so the array stored is the sorted one.         *)
(***************************************************************************)
handleAngleRangeSelect(selectedFiles) ==
    /\ mounted
    /\ NoFetchEmbeddings
    /\ UNCHANGED <<mounted, is3D, props, embeddingState, analysisType, selectedPoints2D, slots,
                   isLoadingAnalysis, analysisError, inflight>>
    /\ lastUpdate' = [lastUpdate EXCEPT !["angle"] = SetOf(selectedFiles)]
    /\ IF SelectionKey(selectedByAngle) # SelectionKey(selectedFiles)
       THEN /\ timerSeq < MaxTimers
            /\ selectedByAngle' = Sort(selectedFiles)
            /\ ScheduleDebounce(Sort(selectedFiles))
       ELSE UNCHANGED <<selectedByAngle, debounceRef, timers, timerSeq, burst>>

handle2DSelectionChange(selectedFiles) ==
    /\ mounted
    /\ NoFetchEmbeddings
    /\ UNCHANGED <<mounted, is3D, props, embeddingState, analysisType, selectedByAngle, slots,
                   isLoadingAnalysis, analysisError, inflight>>
    /\ lastUpdate' = [lastUpdate EXCEPT !["2d"] = SetOf(selectedFiles)]
    /\ IF SelectionKey(selectedPoints2D) # SelectionKey(selectedFiles)
       THEN /\ timerSeq < MaxTimers
            /\ selectedPoints2D' = Sort(selectedFiles)
            /\ ScheduleDebounce(Sort(selectedFiles))
       ELSE UNCHANGED <<selectedPoints2D, debounceRef, timers, timerSeq, burst>>

(***************************************************************************)
(* The three fetch functions, up to their first await: the early return on *)
(* an empty list, the loading and error flags, and the request sent.       *)
(***************************************************************************)
\* if (dataset) requestBody.dataset = dataset
DatasetField(d) == IF d # "" THEN Some(d) ELSE null

Request(t, kind, endpoint, modelField) ==
    [seq |-> t.id, kind |-> kind, endpoint |-> endpoint,
     body |-> [filenames |-> t.filenames, model |-> modelField,
               dataset |-> DatasetField(t.dataset)]]

\* Variant: the dispatch sets the loading flag and leaves the error.
StartFetchKeepingError(request) ==
    /\ IF mounted
       THEN /\ isLoadingAnalysis' = TRUE
            /\ UNCHANGED analysisError
       ELSE UNCHANGED <<isLoadingAnalysis, analysisError>>
    /\ inflight' = inflight \cup {request}
    /\ UNCHANGED slots

\* The setters of a component that is no longer mounted change nothing; the
\* request is sent all the same.
StartFetch(request) ==
    /\ IF mounted
       THEN /\ isLoadingAnalysis' = TRUE
            /\ analysisError' = null
       ELSE UNCHANGED <<isLoadingAnalysis, analysisError>>
    /\ inflight' = inflight \cup {request}
    /\ UNCHANGED slots

fetchFrequencyAnalysis(t) ==
    IF Len(t.filenames) = 0
    THEN UNCHANGED <<slots, isLoadingAnalysis, analysisError, inflight>>
    ELSE StartFetch(Request(t, "audio-features", "/inferences/audio-frequency-batch",
                            Some(t.model)))

\* Variant: the predictions request carries the model as the other two do.
fetchBatchPredictionsWithModel(t) ==
    IF Len(t.filenames) = 0
    THEN UNCHANGED <<slots, isLoadingAnalysis, analysisError, inflight>>
    ELSE StartFetch(Request(t, "predictions", "/inferences/wav2vec2-batch",
                            Some(t.model)))

fetchBatchPredictions(t) ==
    IF Len(t.filenames) = 0
    THEN UNCHANGED <<slots, isLoadingAnalysis, analysisError, inflight>>
    ELSE StartFetch(Request(t, "predictions", "/inferences/wav2vec2-batch", null))

fetchWhisperAnalysis(t) ==
    IF Len(t.filenames) = 0
    THEN UNCHANGED <<slots, isLoadingAnalysis, analysisError, inflight>>
    ELSE StartFetch(Request(t, "common-terms", "/inferences/whisper-batch",
                            Some(t.model)))

\* fetchAnalysis: the switch on the analysisType of the closure.
fetchAnalysis(t) ==
    CASE t.analysisType = "predictions" -> fetchBatchPredictions(t)
      [] t.analysisType = "common-terms" -> fetchWhisperAnalysis(t)
      [] t.analysisType = "audio-features" -> fetchFrequencyAnalysis(t)

\* Variant: the callback sends the request of its kind without looking at
\* the length of the list.
DebounceCallbackUnguarded(t) ==
    CASE t.analysisType = "predictions" ->
            StartFetch(Request(t, "predictions", "/inferences/wav2vec2-batch", null))
      [] t.analysisType = "common-terms" ->
            StartFetch(Request(t, "common-terms", "/inferences/whisper-batch",
                               Some(t.model)))
      [] t.analysisType = "audio-features" ->
            StartFetch(Request(t, "audio-features", "/inferences/audio-frequency-batch",
                               Some(t.model)))

\* The callback given to setTimeout.
DebounceCallback(t) ==
    IF Len(t.filenames) > 0
    THEN fetchAnalysis(t)
    ELSE /\ IF mounted THEN clearAnalysisResults ELSE UNCHANGED slots
         /\ UNCHANGED <<isLoadingAnalysis, analysisError, inflight>>

\* Variant: the timer expires without running its callback.
TimerFireWithoutCallback(t) ==
    /\ t \in timers
    /\ timers' = timers \ {t}
    /\ burst' = IF burst = null THEN null ELSE Some([burst[1] EXCEPT !.fired = TRUE])
    /\ NoFetchEmbeddings
    /\ UNCHANGED <<mounted, is3D, props, embeddingState, analysisType, selections, slots,
                   isLoadingAnalysis, analysisError, inflight, debounceRef, timerSeq,
                   lastUpdate>>

\* The 300 ms have passed: the pending timer runs its callback.  The ref keeps
\* the id of the timer that has fired.
TimerFire(t) ==
    /\ t \in timers
    /\ timers' = timers \ {t}
    /\ DebounceCallback(t)
    /\ burst' = IF burst = null THEN null ELSE Some([burst[1] EXCEPT !.fired = TRUE])
    /\ NoFetchEmbeddings
    /\ UNCHANGED <<mounted, is3D, props, embeddingState, analysisType, selections, debounceRef, timerSeq,
                   lastUpdate>>

(***************************************************************************)
(* The three fetch functions from the response on: try, catch, finally.    *)
(***************************************************************************)
\* How a request ends: a 2xx response with a JSON body, a response with
\* another status and a text body, or a rejected promise (fetch(), text() or
\* json() throwing an Error).
Outcomes ==
    {[type |-> "ok", status |-> 200, text |-> ""]}
        \cup {[type |-> "http", status |-> st, text |-> b] :
                st \in HttpStatuses, b \in HttpBodies}
        \cup {[type |-> "reject", status |-> 0, text |-> m] : m \in TransportMessages}

\* The analysis the backend returns for a request.
Response(r) == [seq |-> r.seq, kind |-> r.kind, filenames |-> r.body.filenames]

FetchLabel(kind) ==
    CASE kind = "audio-features" -> "audio frequency analysis"
      [] kind = "predictions" -> "batch predictions"
      [] kind = "common-terms" -> "whisper analysis"

\* Variant: the message of a non-2xx response leaves the response text out.
ThrownMessageWithoutBody(r, o) ==
    IF o.type = "http"
    THEN "Failed to fetch " \o FetchLabel(r.kind) \o ": " \o ToString(o.status)
    ELSE o.text

\* The message of the Error that reaches the catch block.
ThrownMessage(r, o) ==
    IF o.type = "http"
    THEN "Failed to fetch " \o FetchLabel(r.kind) \o ": " \o ToString(o.status)
             \o " - " \o o.text
    ELSE o.text

\* Variant: a successful response sets its own slot and leaves the others.
FrequencySettledKeepingOthers(r, o) ==
    /\ IF o.type = "ok"
       THEN /\ audioFrequencyAnalysis' = Some(Response(r))
            /\ UNCHANGED <<batchPrediction, whisperAnalysis, analysisError>>
       ELSE /\ analysisError' = Some(ThrownMessage(r, o))
            /\ audioFrequencyAnalysis' = null
            /\ UNCHANGED <<batchPrediction, whisperAnalysis>>
    /\ isLoadingAnalysis' = FALSE

FrequencySettled(r, o) ==
    /\ IF o.type = "ok"
       THEN /\ audioFrequencyAnalysis' = Some(Response(r))
            /\ batchPrediction' = null
            /\ whisperAnalysis' = null
            /\ UNCHANGED analysisError
       ELSE /\ analysisError' = Some(ThrownMessage(r, o))
            /\ audioFrequencyAnalysis' = null
            /\ UNCHANGED <<batchPrediction, whisperAnalysis>>
    /\ isLoadingAnalysis' = FALSE

\* Variant: a successful response sets its own slot and leaves the others.
PredictionsSettledKeepingOthers(r, o) ==
    /\ IF o.type = "ok"
       THEN /\ batchPrediction' = Some(Response(r))
            /\ UNCHANGED <<audioFrequencyAnalysis, whisperAnalysis, analysisError>>
       ELSE /\ analysisError' = Some(ThrownMessage(r, o))
            /\ batchPrediction' = null
            /\ UNCHANGED <<audioFrequencyAnalysis, whisperAnalysis>>
    /\ isLoadingAnalysis' = FALSE

PredictionsSettled(r, o) ==
    /\ IF o.type = "ok"
       THEN /\ batchPrediction' = Some(Response(r))
            /\ audioFrequencyAnalysis' = null
            /\ whisperAnalysis' = null
            /\ UNCHANGED analysisError
       ELSE /\ analysisError' = Some(ThrownMessage(r, o))
            /\ batchPrediction' = null
            /\ UNCHANGED <<audioFrequencyAnalysis, whisperAnalysis>>
    /\ isLoadingAnalysis' = FALSE

\* Variant: the loading flag is cleared after a success only.
WhisperSettledWithoutFinally(r, o) ==
    IF o.type = "ok"
    THEN /\ whisperAnalysis' = Some(Response(r))
         /\ audioFrequencyAnalysis' = null
         /\ batchPrediction' = null
         /\ isLoadingAnalysis' = FALSE
         /\ UNCHANGED analysisError
    ELSE /\ analysisError' = Some(ThrownMessage(r, o))
         /\ whisperAnalysis' = null
         /\ UNCHANGED <<audioFrequencyAnalysis, batchPrediction, isLoadingAnalysis>>

WhisperSettled(r, o) ==
    /\ IF o.type = "ok"
       THEN /\ whisperAnalysis' = Some(Response(r))
            /\ audioFrequencyAnalysis' = null
            /\ batchPrediction' = null
            /\ UNCHANGED analysisError
       ELSE /\ analysisError' = Some(ThrownMessage(r, o))
            /\ whisperAnalysis' = null
            /\ UNCHANGED <<audioFrequencyAnalysis, batchPrediction>>
    /\ isLoadingAnalysis' = FALSE

\* Variant: a failure also empties the stored selections.
FetchSettleResettingSelection(r, o) ==
    /\ r \in inflight
    /\ inflight' = inflight \ {r}
    /\ IF mounted
       THEN CASE r.kind = "audio-features" -> FrequencySettled(r, o)
              [] r.kind = "predictions" -> PredictionsSettled(r, o)
              [] r.kind = "common-terms" -> WhisperSettled(r, o)
       ELSE UNCHANGED <<slots, isLoadingAnalysis, analysisError>>
    /\ IF mounted /\ o.type # "ok"
       THEN selectedByAngle' = <<>> /\ selectedPoints2D' = <<>>
       ELSE UNCHANGED selections
    /\ NoFetchEmbeddings
    /\ UNCHANGED <<mounted, is3D, props, embeddingState, analysisType, debounceRef, timers,
                   timerSeq, lastUpdate, burst>>

\* The response of request r arrives with outcome o.  The setters of a
\* component that is no longer mounted change nothing.
FetchSettle(r, o) ==
    /\ r \in inflight
    /\ inflight' = inflight \ {r}
    /\ IF mounted
       THEN CASE r.kind = "audio-features" -> FrequencySettled(r, o)
              [] r.kind = "predictions" -> PredictionsSettled(r, o)
              [] r.kind = "common-terms" -> WhisperSettled(r, o)
       ELSE UNCHANGED <<slots, isLoadingAnalysis, analysisError>>
    /\ NoFetchEmbeddings
    /\ UNCHANGED <<mounted, is3D, props, embeddingState, analysisType, selections, debounceRef, timers,
                   timerSeq, lastUpdate, burst>>

(***************************************************************************)
(* The analysis type Select, the model effect and the cleanup effect.      *)
(***************************************************************************)
\* onValueChange of the analysis type Select: the user picks another item.
AnalysisTypeChange(value) ==
    /\ mounted
    /\ value \in SelectItems(model)
    /\ value # analysisType
    /\ analysisType' = value
    /\ clearAnalysisResults
    /\ selectedByAngle' = <<>>
    /\ selectedPoints2D' = <<>>
    /\ lastUpdate' = [mode \in {"angle", "2d"} |-> {}]
    /\ NoFetchEmbeddings
    /\ UNCHANGED <<mounted, is3D, props, embeddingState, isLoadingAnalysis, analysisError, debounceRef,
                   timers, inflight, timerSeq, burst>>

\* Variant: the effect leaves the analysis type as it is.
ModelEffectKeepingType(m) == UNCHANGED <<analysisType, slots>>

\* Variant: the effect sets the analysis type and leaves the slots.
ModelEffectWithoutClear(m) ==
    LET availableTypes == getAvailableAnalysisTypes(m)
    IN  IF analysisType \notin SetOf(availableTypes)
        THEN /\ analysisType' = availableTypes[1]
             /\ UNCHANGED slots
        ELSE UNCHANGED <<analysisType, slots>>

\* The effect on [model]: the analysis type of the render, checked against
\* the kinds of the new model.
ModelEffect(m) ==
    LET availableTypes == getAvailableAnalysisTypes(m)
    IN  IF analysisType \notin SetOf(availableTypes)
        THEN /\ analysisType' = availableTypes[1]
             /\ clearAnalysisResults
        ELSE UNCHANGED <<analysisType, slots>>

\* Variant: every model change empties the result slots and resets the kind
\* to the first kind of the new model.
ModelChangeResettingResults(m) ==
    /\ mounted
    /\ m # model
    /\ model' = m
    /\ analysisType' = getAvailableAnalysisTypes(m)[1]
    /\ clearAnalysisResults
    /\ UNCHANGED <<mounted, is3D, dataset, embeddingState, selections, isLoadingAnalysis,
                   analysisError, debounceRef, timers, inflight, timerSeq, lastUpdate, burst>>
    /\ EmbeddingEffect

\* The parent passes another model; the effect runs after the render.
ModelChange(m) ==
    /\ mounted
    /\ m # model
    /\ model' = m
    /\ ModelEffect(m)
    /\ UNCHANGED <<mounted, is3D, dataset, embeddingState, selections, isLoadingAnalysis,
                   analysisError, debounceRef, timers, inflight, timerSeq, lastUpdate, burst>>
    /\ EmbeddingEffect

\* Variant: the cleanup leaves the pending timer.
UnmountWithoutClear ==
    /\ mounted
    /\ mounted' = FALSE
    /\ burst' = null
    /\ NoFetchEmbeddings
    /\ UNCHANGED <<is3D, props, embeddingState, analysisType, selections, slots, isLoadingAnalysis,
                   analysisError, debounceRef, timers, inflight, timerSeq, lastUpdate>>

\* The cleanup of the effect on []: the component is unmounted.
Unmount ==
    /\ mounted
    /\ mounted' = FALSE
    /\ timers' = ClearDebounce(timers)
    /\ burst' = null
    /\ NoFetchEmbeddings
    /\ UNCHANGED <<is3D, props, embeddingState, analysisType, selections, slots, isLoadingAnalysis,
                   analysisError, debounceRef, inflight, timerSeq, lastUpdate>>

Next ==
    \/ \E files \in Payloads : handleAngleRangeSelect(files)
    \/ \E files \in Payloads : handle2DSelectionChange(files)
    \/ \E t \in timers : TimerFire(t)
    \/ \E r \in inflight, o \in Outcomes : FetchSettle(r, o)
    \/ \E value \in AnalysisTypes : AnalysisTypeChange(value)
    \/ \E m \in Models : ModelChange(m)
    \/ Unmount

\* The panel with the 3D switch left alone and no files to project: the
\* embedding effect requests nothing, and no action of Next depends on is3D.
Spec == Init /\ [][Next]_vars

\* handle3DToggle, onCheckedChange of the 3D switch, which is disabled while
\* the context is loading.  is3D is no dependency of the embedding effect:
\* the only call is the one made here.
handle3DToggle(checked) ==
    /\ mounted
    /\ ~isLoading
    /\ is3D' = checked
    /\ UNCHANGED <<mounted, props, embeddingState, analysisType, selections, slots,
                   isLoadingAnalysis, analysisError, debounceRef, timers, inflight,
                   timerSeq, lastUpdate, burst>>
    /\ IF embeddingData # null /\ Len(availableFiles) > 0
       THEN FetchEmbeddings(model, dataset, availableFiles, reductionMethod,
                            IF checked THEN 3 ELSE 2)
       ELSE NoFetchEmbeddings

NextDim ==
    \/ Next
    \/ \E checked \in BOOLEAN : handle3DToggle(checked)

\* The panel whose parent passes a dataset or none ("").
InitReq == InitialState(Datasets \cup {""})

SpecReq == InitReq /\ [][Next]_vars

\* The panel with the 3D switch.
SpecDim == Init /\ [][NextDim]_vars

\* The parent passes another dataset.
DatasetChange(d) ==
    /\ mounted
    /\ d # dataset
    /\ dataset' = d
    /\ UNCHANGED <<mounted, model, is3D, embeddingState, analysisType, selections, slots,
                   isLoadingAnalysis, analysisError, debounceRef, timers, inflight,
                   timerSeq, lastUpdate, burst>>
    /\ EmbeddingEffect

\* The parent passes another array of files.  The dependency is compared by
\* identity, so an array with the same files runs the effect as well.
AvailableFilesChange(files) ==
    /\ mounted
    /\ availableFiles' = files
    /\ UNCHANGED <<mounted, props, is3D, reductionMethod, embeddingData, isLoading,
                   analysisType,
                   selections, slots, isLoadingAnalysis, analysisError, debounceRef,
                   timers, inflight, timerSeq, lastUpdate, burst>>
    /\ EmbeddingEffect

\* handleReductionMethodChange, onValueChange of the reduction method Select.
handleReductionMethodChange(method) ==
    /\ mounted
    /\ method # reductionMethod
    /\ reductionMethod' = method
    /\ UNCHANGED <<mounted, props, is3D, availableFiles, embeddingData, isLoading,
                   analysisType,
                   selections, slots, isLoadingAnalysis, analysisError, debounceRef,
                   timers, inflight, timerSeq, lastUpdate, burst>>
    /\ EmbeddingEffect

\* handleFetchEmbeddings, onClick of the refresh button, which is disabled
\* while the context is loading and while there are no files.
handleFetchEmbeddings ==
    /\ mounted
    /\ ~isLoading
    /\ Len(availableFiles) > 0
    /\ UNCHANGED <<mounted, props, is3D, embeddingState, analysisType, selections, slots,
                   isLoadingAnalysis, analysisError, debounceRef, timers, inflight,
                   timerSeq, lastUpdate, burst>>
    /\ IF Len(availableFiles) > 0
       THEN FetchEmbeddings(model, dataset, availableFiles, reductionMethod,
                            IF is3D THEN 3 ELSE 2)
       ELSE NoFetchEmbeddings

\* The EmbeddingContext changes the values the panel reads from it: it
\* starts or ends loading, delivers a projection or drops the one it had.
EmbeddingContextChange(data, loading) ==
    /\ mounted
    /\ <<data, loading>> # <<embeddingData, isLoading>>
    /\ embeddingData' = data
    /\ isLoading' = loading
    /\ NoFetchEmbeddings
    /\ UNCHANGED <<mounted, props, is3D, availableFiles, reductionMethod, analysisType,
                   selections, slots, isLoadingAnalysis, analysisError, debounceRef,
                   timers, inflight, timerSeq, lastUpdate, burst>>

NextEmb ==
    \/ \E m \in ModelIds : ModelChange(m)
    \/ \E d \in DatasetIds : DatasetChange(d)
    \/ \E files \in FileUniverses : AvailableFilesChange(files)
    \/ \E method \in ReductionMethods : handleReductionMethodChange(method)
    \/ \E checked \in BOOLEAN : handle3DToggle(checked)
    \/ handleFetchEmbeddings
    \/ \E data \in {null, Some("projection")}, loading \in BOOLEAN :
          EmbeddingContextChange(data, loading)
    \/ \E value \in AnalysisTypes : AnalysisTypeChange(value)
    \/ Unmount

\* The panel's inputs to the projection: the props, the reduction method, the
\* 3D switch and the refresh button, with no selection made.
SpecEmb == Init /\ [][NextEmb]_vars

(***************************************************************************)
(* Properties.  The state of the component exists while it is mounted; the *)
(* properties speak of the mounted component.                              *)
(***************************************************************************)
AllSlotsEmpty ==
    /\ audioFrequencyAnalysis = null
    /\ batchPrediction = null
    /\ whisperAnalysis = null

PopulatedSlots == {i \in 1..3 : slots[i] # null}

\* The requests sent in a step.
NewRequests == inflight' \ inflight

\* The state of the component apart from the history variables.
panelState ==
    <<mounted, model, dataset, availableFiles, is3D, reductionMethod, embeddingData,
      isLoading, projection, analysisType, selectedByAngle,
      selectedPoints2D, audioFrequencyAnalysis, batchPrediction, whisperAnalysis, isLoadingAnalysis,
      analysisError, debounceRef, timers, inflight, timerSeq>>

\* C1: in every reachable state at most one of the three result slots
\* (audioFrequencyAnalysis, batchPrediction, whisperAnalysis) is non-empty.
C1_AtMostOneSlot == Cardinality(PopulatedSlots) <= 1

\* A slot is populated while a request of another kind is awaiting its response.
C1_Witness ==
    /\ mounted
    /\ audioFrequencyAnalysis # null
    /\ \E r \in inflight : r.kind = "common-terms"

\* C2: when the response of request A arrives after the response of a request B
\* that was dispatched later (B's result is in a slot), A's response leaves the
\* result slots as B committed them.
C2_StaleResponseDiscarded ==
    [][\A r \in inflight, o \in Outcomes :
         (/\ mounted
          /\ FetchSettle(r, o)
          /\ \E i \in 1..3 : slots[i] # null /\ slots[i][1].seq > r.seq)
            => UNCHANGED slots]_vars

\* C3 as claimed: when the timer of a burst of N >= 1 selection changes runs,
\* exactly one request is sent, and it carries the files of the last change.
C3_ExactlyOneFetchPerBurst ==
    [][\A t \in timers :
         TimerFire(t) =>
            /\ burst # null
            /\ ~burst[1].fired
            /\ \E r \in NewRequests :
                  /\ NewRequests = {r}
                  /\ SetOf(r.body.filenames) = burst[1].last
                  /\ Len(r.body.filenames) = Cardinality(burst[1].last)]_vars

\* C3 as amended: requests are sent only when a timer runs; when the timer of
\* a burst of N >= 1 selection changes runs, it is the one timer of that burst,
\* and it sends exactly one request with the files of the last change when
\* that change is not empty, and no request when it is empty.
C3_OneFetchPerBurstUnlessEmpty ==
    [][/\ (NewRequests # {} => \E t \in timers : TimerFire(t))
       /\ \A t \in timers :
            TimerFire(t) =>
               /\ burst # null
               /\ ~burst[1].fired
               /\ IF burst[1].last = {}
                  THEN NewRequests = {}
                  ELSE \E r \in NewRequests :
                          /\ NewRequests = {r}
                          /\ SetOf(r.body.filenames) = burst[1].last
                          /\ Len(r.body.filenames) = Cardinality(burst[1].last)]_vars

\* The timer of a burst of two changes has run and its request carries the
\* files of the second change.
C3_Witness ==
    /\ mounted
    /\ burst # null
    /\ burst[1].fired
    /\ burst[1].n >= 2
    /\ \E r \in inflight :
          r.seq = timerSeq /\ SetOf(r.body.filenames) = burst[1].last

C5_ActiveKindIsLegal ==
    /\ \A m \in ModelIds : Len(getAvailableAnalysisTypes(m)) >= 1
    /\ mounted => analysisType \in SetOf(getAvailableAnalysisTypes(model))

\* The model changed from wav2vec2 to a whisper model while a selection made
\* under 'predictions' was waiting for its timer: the type was forced.
C5_Witness ==
    /\ mounted
    /\ analysisType = "common-terms"
    /\ selectedByAngle # <<>>
    /\ \E t \in timers :
          t.analysisType = "predictions" /\ t.filenames = selectedByAngle

\* C6: a request whose kind is no longer the analysis type was scheduled
\* before the analysis type changed (by the user, or forced by a model
\* change): the step that handles its response leaves the result slots alone.
C6_NoResultFromBeforeKindChange ==
    [][\A r \in inflight, o \in Outcomes :
         (mounted /\ r.kind # analysisType /\ FetchSettle(r, o))
            => UNCHANGED slots]_vars

\* C7: the step that handles a change to the empty selection leaves the three
\* result slots empty and schedules no debounce timer.
C7_EmptySelectionClearsAtOnce ==
    [][/\ (handleAngleRangeSelect(<<>>) /\ selectedByAngle # <<>>)
           => (AllSlotsEmpty' /\ timers' \subseteq timers)
       /\ (handle2DSelectionChange(<<>>) /\ selectedPoints2D # <<>>)
           => (AllSlotsEmpty' /\ timers' \subseteq timers)]_vars

\* C8: every request sent to an analysis endpoint carries at least one filename.
C8_NoRequestWithoutFiles ==
    \A r \in inflight : Len(r.body.filenames) >= 1

\* The timer of a change to the empty selection has run while a request of
\* the earlier selection is awaiting its response.
C8_Witness ==
    /\ mounted
    /\ burst # null
    /\ burst[1].fired
    /\ burst[1].last = {}
    /\ inflight # {}

\* C9: after a request has ended in a failure all three result slots are empty.
C9_FailureLeavesAllSlotsEmpty ==
    [][\A r \in inflight, o \in Outcomes :
         (mounted /\ o.type # "ok" /\ FetchSettle(r, o)) => AllSlotsEmpty']_vars

\* C10: every failure of a request is taken by the catch block: the step that
\* handles it ends the request and leaves analysisError set to a message; for
\* a response with a non-2xx status the message contains the status code and
\* the response text.
C10_FailureBecomesErrorState ==
    [][\A r \in inflight, o \in Outcomes :
         (mounted /\ o.type # "ok" /\ FetchSettle(r, o)) =>
            /\ analysisError' # null
            /\ r \notin inflight'
            /\ o.type = "http" =>
                  /\ Includes(analysisError'[1], ToString(o.status))
                  /\ Includes(analysisError'[1], o.text)]_vars

\* A request for audio features has failed with status 500 and the text
\* "server error".
C10_Witness ==
    /\ mounted
    /\ ~isLoadingAnalysis
    /\ analysisError # null
    /\ Includes(analysisError[1], "audio frequency analysis")
    /\ Includes(analysisError[1], "500")
    /\ Includes(analysisError[1], "server error")

\* C11: a model change under which the active analysis type is not among the
\* kinds of the new model leaves the analysis type at the first kind of the new
\* model and all three result slots empty; from wav2vec2 with 'predictions' to
\* whisper-base the analysis type becomes 'common-terms'.
C11_IllegalKindForcedToDefault ==
    [][\A m \in Models :
         (ModelChange(m) /\ analysisType \notin SetOf(getAvailableAnalysisTypes(m))) =>
            /\ analysisType' = getAvailableAnalysisTypes(m)[1]
            /\ AllSlotsEmpty'
            /\ (model = "wav2vec2" /\ analysisType = "predictions" /\ m = "whisper-base")
                  => analysisType' = "common-terms"]_vars

\* The model is wav2vec2, the analysis type is 'predictions' and its slot is
\* populated: the state in which a change to a whisper model has a slot to clear.
C11_Witness ==
    /\ mounted
    /\ model = "wav2vec2"
    /\ analysisType = "predictions"
    /\ batchPrediction # null

\* C12: once the component is unmounted no debounce timer is pending, so no
\* timer callback runs: no request is sent and no result slot changes.
C12_NoCallbackAfterUnmount ==
    /\ [](~mounted => timers = {})
    /\ [][~mounted => (NewRequests = {} /\ UNCHANGED slots)]_vars

\* The component was unmounted while the timer of its only selection change
\* was pending. Had that timer run, its audio-features request would be in
\* flight, or its response would have left a populated slot or an error: the
\* analysis type has not changed since the selection (a change empties the
\* selection) and only a later dispatch clears an error.
C12_Witness ==
    /\ ~mounted
    /\ timerSeq = 1
    /\ debounceRef = 1
    /\ selectedByAngle # <<>>
    /\ analysisType = "audio-features"
    /\ timers = {}
    /\ inflight = {}
    /\ ~isLoadingAnalysis
    /\ analysisError = null
    /\ AllSlotsEmpty

\* C13: at most one debounce timer is pending, for both selection modes
\* together, and it is the one the ref names; a timer that runs is the timer
\* created last, never one that a later selection change has replaced.
C13_OneTimerNeverSuperseded ==
    /\ [](/\ Cardinality(timers) <= 1
          /\ \A t \in timers : t.id = debounceRef)
    /\ [][\A t \in timers : TimerFire(t) => t.id = timerSeq]_vars

\* A selection change in the planar mode has replaced the pending timer of a
\* change in the angle-range mode: one timer is pending, the second.
C13_Witness ==
    /\ mounted
    /\ selectedByAngle # <<>>
    /\ selectedPoints2D # <<>>
    /\ burst # null
    /\ burst[1].n = 2
    /\ ~burst[1].fired
    /\ \E t \in timers : timers = {t} /\ t.id = 2 /\ t.filenames = selectedPoints2D

\* C14: the last timer that ran was the timer of a change to the empty
\* selection, which cleared the slots, and no selection is stored: every
\* request still in flight was sent for an earlier selection, and the step
\* that handles its response leaves the three slots empty.
C14_EmptySelectionDiscardsInflight ==
    [][\A r \in inflight, o \in Outcomes :
         (/\ mounted
          /\ burst # null /\ burst[1].fired /\ burst[1].last = {}
          /\ selectedByAngle = <<>> /\ selectedPoints2D = <<>>
          /\ FetchSettle(r, o)) => AllSlotsEmpty']_vars

\* The index in slots of the slot of an analysis kind.
SlotOf(kind) ==
    CASE kind = "audio-features" -> 1
      [] kind = "predictions" -> 2
      [] kind = "common-terms" -> 3

\* C15: the step that handles a successful response of a request of kind k
\* leaves the slot of k holding that response and the other two slots empty;
\* the three setters take effect in that one step.
C15_SuccessCommitsOneSlot ==
    [][\A r \in inflight, o \in Outcomes :
         (mounted /\ o.type = "ok" /\ FetchSettle(r, o)) =>
            \A i \in 1..3 :
               slots'[i] = IF i = SlotOf(r.kind) THEN Some(Response(r)) ELSE null]_vars

\* The slot of 'predictions' is populated while a request for audio features
\* is awaiting its response: its success has another slot to clear.
C15_Witness ==
    /\ mounted
    /\ batchPrediction # null
    /\ \E r \in inflight : r.kind = "audio-features"

\* C16: the step that handles a failure of a request, when a slot holds the
\* result of a request that was sent later, leaves the error state and the
\* result slots as they are.
C16_SupersededFailureDiscarded ==
    [][\A r \in inflight, o \in Outcomes :
         (/\ mounted
          /\ o.type # "ok"
          /\ \E i \in 1..3 : slots[i] # null /\ slots[i][1].seq > r.seq
          /\ FetchSettle(r, o)) => UNCHANGED <<analysisError, slots>>]_vars

\* C17: in every reachable state a populated result slot is the slot of the
\* active analysis type.
C17_PopulatedSlotIsActiveKind ==
    mounted => \A i \in 1..3 : slots[i] # null => i = SlotOf(analysisType)

\* Request number s is awaiting its response.
InFlight(s) == \E r \in inflight : r.seq = s

\* The network answers every request: the promise of each request in flight
\* is eventually settled, with a response or with a rejection.
LiveSpec ==
    Spec /\ \A s \in 1..MaxTimers :
               WF_vars(\E r \in inflight, o \in Outcomes : r.seq = s /\ FetchSettle(r, o))

\* C18: the step that handles the end of a request, a success or a failure,
\* leaves isLoadingAnalysis false; every request that is sent reaches that
\* step; and while no request is in flight isLoadingAnalysis is false.
C18_LoadingClearedOnCompletion ==
    /\ [](mounted /\ inflight = {} => ~isLoadingAnalysis)
    /\ [][\A r \in inflight, o \in Outcomes :
            (mounted /\ FetchSettle(r, o)) => ~isLoadingAnalysis']_vars
    /\ \A s \in 1..MaxTimers :
          InFlight(s) ~> (~InFlight(s) /\ (mounted => ~isLoadingAnalysis))

\* A request has failed and none is in flight: the flag is false and the error
\* is set.
C18_Witness ==
    /\ mounted
    /\ timerSeq >= 1
    /\ inflight = {}
    /\ ~isLoadingAnalysis
    /\ analysisError # null
    /\ timers = {}

\* C19: when the timer of a non-empty selection runs, the step that sends the
\* request of the timer's analysis type, whichever of the three it is, leaves
\* isLoadingAnalysis true and analysisError null.
C19_DispatchSetsLoadingClearsError ==
    [][\A t \in timers :
         (mounted /\ Len(t.filenames) > 0 /\ TimerFire(t)) =>
            /\ isLoadingAnalysis'
            /\ analysisError' = null
            /\ \E r \in NewRequests : NewRequests = {r} /\ r.kind = t.analysisType]_vars

\* The error of a failed request for audio features is set and the timer of a
\* non-empty selection made under 'predictions' is pending: the dispatch that
\* follows has an error to clear.
C19_Witness ==
    /\ mounted
    /\ ~isLoadingAnalysis
    /\ analysisError # null
    /\ Includes(analysisError[1], "audio frequency analysis")
    /\ \E t \in timers : Len(t.filenames) > 0 /\ t.analysisType = "predictions"

\* C20: the step that handles a failure of a request leaves both selections,
\* the analysis type and the 3D switch as they are, and with them the props,
\* the timer and the ref: apart from the request that ends, only analysisError,
\* isLoadingAnalysis and the result slots may change.
C20_FailureKeepsSelectionKindAndMode ==
    [][\A r \in inflight, o \in Outcomes :
         (mounted /\ o.type # "ok" /\ FetchSettle(r, o)) =>
            /\ UNCHANGED <<selectedByAngle, selectedPoints2D, analysisType, is3D>>
            /\ UNCHANGED <<mounted, props, debounceRef, timers, timerSeq>>
            /\ inflight' = inflight \ {r}]_vars

\* In 3D mode the request of the stored angle-range selection has failed: the
\* selection, the analysis type and the mode are as they were.
C20_Witness ==
    /\ mounted
    /\ is3D
    /\ selectedByAngle # <<>>
    /\ analysisError # null
    /\ ~isLoadingAnalysis
    /\ inflight = {}
    /\ timers = {}
    /\ timerSeq = 1

\* C21: a step of the mounted panel that changes the analysis kind (by the
\* Select or by the model effect) or the file universe leaves both selection
\* sets empty.
C21_SelectionsEmptyAfterKindOrFilesChange ==
    [][(/\ mounted
        /\ analysisType' # analysisType \/ availableFiles' # availableFiles)
          => (selectedByAngle' = <<>> /\ selectedPoints2D' = <<>>)]_vars

\* C22: a step of the mounted panel that changes the model, the dataset, the
\* file universe, the reduction method or the dimensionality, after which the
\* file universe is non-empty and model and dataset are set, calls
\* fetchEmbeddings for all files of the file universe with the current
\* reduction method and the new dimensionality, whether or not embedding data
\* is loaded.
C22_ChangeIssuesProjection ==
    [][(/\ mounted
        /\ <<model, dataset, availableFiles, reductionMethod, is3D>>'
              # <<model, dataset, availableFiles, reductionMethod, is3D>>
        /\ Len(availableFiles') > 0 /\ model' # "" /\ dataset' # "")
          => projection' = Some([model |-> model', dataset |-> dataset',
                                 filenames |-> availableFiles',
                                 method |-> reductionMethod',
                                 nComponents |-> IF is3D' THEN 3 ELSE 2])]_vars

\* The identifiers of ModelIds by family, written out.
Wav2vec2Family == {"wav2vec2", "wav2vec2-large"}

WhisperFamily == {"whisper-base", "whisper-large-v3", "openai/whisper"}

\* The kinds the claim gives a model whose wav2vec2 identifiers are ids.
KindsTable(m, ids) ==
    IF m \in ids THEN <<"predictions", "audio-features">>
    ELSE IF m \in WhisperFamily THEN <<"common-terms", "audio-features">>
    ELSE <<"audio-features">>

\* C23 as stated: the kinds of the current model are [predictions,
\* audio-features] for every model of the wav2vec2 family, [common-terms,
\* audio-features] for a model whose identifier contains "whisper", and
\* [audio-features] for every other model.
C23_KindsByFamily ==
    getAvailableAnalysisTypes(model) = KindsTable(model, Wav2vec2Family)

\* C23, amended: the kinds of the current model are [predictions,
\* audio-features] for the identifier "wav2vec2" itself, [common-terms,
\* audio-features] for an identifier that contains "whisper", and
\* [audio-features] for every other model, other wav2vec2 identifiers
\* included; the Select offers these kinds, and the kind a model change forces
\* is the first of them.
C23_KindsByIdentifier ==
    /\ [](/\ getAvailableAnalysisTypes(model) = KindsTable(model, {"wav2vec2"})
          /\ SelectItems(model) = SetOf(KindsTable(model, {"wav2vec2"})))
    /\ [][(mounted /\ model' # model /\ analysisType' # analysisType)
             => analysisType' = KindsTable(model', {"wav2vec2"})[1]]_vars

\* The parent has just passed a wav2vec2 variant other than "wav2vec2" (the
\* projection requested in the step is for it) and the panel is on the only
\* kind of that model.
C23_Witness ==
    /\ mounted
    /\ model = "wav2vec2-large"
    /\ analysisType = "audio-features"
    /\ projection # null
    /\ projection[1].model = "wav2vec2-large"

\* C24: the step in which a timer dispatches a non-empty list sends exactly
\* one request; its endpoint is the one of the kind of the dispatch
\* (audio-features: audio-frequency-batch, predictions: wav2vec2-batch,
\* common-terms: whisper-batch), the body of a predictions request has no
\* model field, the other two carry the model, and the body has a dataset
\* field exactly when the dataset is set.
C24_OneRequestByKind ==
    [][\A t \in timers :
         (Len(t.filenames) > 0 /\ TimerFire(t))
            => \E r \in NewRequests :
                  /\ NewRequests = {r}
                  /\ r.kind = t.analysisType
                  /\ r.endpoint =
                        (CASE t.analysisType = "audio-features" ->
                                 "/inferences/audio-frequency-batch"
                           [] t.analysisType = "predictions" ->
                                 "/inferences/wav2vec2-batch"
                           [] t.analysisType = "common-terms" ->
                                 "/inferences/whisper-batch")
                  /\ r.body.filenames = t.filenames
                  /\ r.body.model =
                        (IF t.analysisType = "predictions" THEN null ELSE Some(t.model))
                  /\ r.body.dataset =
                        (IF t.dataset = "" THEN null ELSE Some(t.dataset))]_vars

\* A predictions request is in flight, sent while no dataset was set: its
\* body has neither a model nor a dataset field.
C24_Witness ==
    /\ mounted
    /\ \E r \in inflight :
          /\ r.kind = "predictions"
          /\ r.endpoint = "/inferences/wav2vec2-batch"
          /\ r.body.model = null
          /\ r.body.dataset = null

\* The event loop runs every timer that stays pending: 300 ms after it was
\* started, unless it is cleared before.
DebounceSpec ==
    Spec /\ \A i \in 1..MaxTimers :
               WF_vars(\E t \in timers : t.id = i /\ TimerFire(t))

\* C25: after a selection change to a non-empty set S (the i-th change that
\* the handlers took as one) a request with exactly the files of S is sent,
\* unless another selection change or the unmount comes first; and a step
\* that sends a request is the run of a pending timer, which sends the files
\* the timer was started with and changes no selection.
C25_SettledSelectionIsDispatched ==
    /\ \A i \in 1..MaxTimers, S \in (SUBSET Files) \ {{}} :
          (/\ mounted
           /\ timerSeq = i
           /\ burst # null /\ ~burst[1].fired /\ burst[1].last = S)
             ~> (\/ ~mounted
                 \/ timerSeq # i
                 \/ \E r \in inflight :
                       r.seq = i /\ SetOf(r.body.filenames) = S)
    /\ [][NewRequests # {}
            => /\ \E t \in timers \ timers' :
                     \E r \in NewRequests :
                        /\ NewRequests = {r}
                        /\ r.seq = t.id
                        /\ r.body.filenames = t.filenames
               /\ UNCHANGED <<selections, timerSeq>>]_vars

\* The second selection change was to ['a', 'b'] in 2D; its timer has run
\* and its request is in flight, while the panel still stores that selection.
C25_Witness ==
    /\ mounted
    /\ timers = {}
    /\ timerSeq = 2
    /\ selectedPoints2D = <<"a", "b">>
    /\ burst # null /\ burst[1].fired /\ burst[1].last = {"a", "b"}
    /\ \E r \in inflight : r.seq = 2 /\ r.body.filenames = <<"a", "b">>

\* C26: a request sent by the run of a timer is for the analysis type, the
\* model and the dataset the panel has at that moment, whatever they were
\* when the timer was started.
C26_DispatchUsesCurrentKindAndModel ==
    [][\A r \in NewRequests :
         /\ r.kind = analysisType
         /\ r.kind # "predictions" => r.body.model = Some(model)
         /\ r.body.dataset = (IF dataset = "" THEN null ELSE Some(dataset))]_vars

\* C27: the files of a request sent by the run of a timer are a selection
\* the panel stores at that moment (the angle-range one or the planar one,
\* whichever started the timer); after a switch of the analysis type has
\* emptied both, no request with the old files is sent.
C27_DispatchedFilesAreStored ==
    [][\A r \in NewRequests :
         mounted => r.body.filenames \in {selectedByAngle, selectedPoints2D}]_vars

\* C28: while a request is in flight, isLoadingAnalysis is true.
C28_LoadingWhileInFlight ==
    (mounted /\ inflight # {}) => isLoadingAnalysis

\* The panel with the 3D switch, where the plot reports angle-range
\* selections while it is in 3D and planar selections while it is in 2D.
NextMode ==
    \/ \E files \in Payloads : is3D /\ handleAngleRangeSelect(files)
    \/ \E files \in Payloads : ~is3D /\ handle2DSelectionChange(files)
    \/ \E t \in timers : TimerFire(t)
    \/ \E r \in inflight, o \in Outcomes : FetchSettle(r, o)
    \/ \E value \in AnalysisTypes : AnalysisTypeChange(value)
    \/ \E m \in Models : ModelChange(m)
    \/ \E checked \in BOOLEAN : handle3DToggle(checked)
    \/ Unmount

SpecMode == Init /\ [][NextMode]_vars

\* C29: while no timer is pending and no request is in flight, a populated
\* result slot holds the analysis of the files of the selection of the
\* current mode: selectedByAngle in 3D, selectedPoints2D in 2D.
C29_ResultIsOfModeSelection ==
    (mounted /\ timers = {} /\ inflight = {})
        => \A i \in PopulatedSlots :
              slots[i][1].filenames = (IF is3D THEN selectedByAngle ELSE selectedPoints2D)

\* C30: a step of the mounted panel that changes an analysisError that is
\* set is the start of a dispatch (a step that sends a request); a switch of
\* the analysis type, a model change, the timer of an empty selection and
\* clearAnalysisResults send none and leave it as it is.
C30_ErrorChangedOnlyByDispatch ==
    [][(mounted /\ analysisError # null /\ analysisError' # analysisError)
          => NewRequests # {}]_vars

\* C31: a step of the mounted panel that changes the model to one for which
\* the active analysis type is still legal leaves the analysis type, both
\* selections, the three result slots, the pending timer (with the ref that
\* names it) and analysisError as they are.
C31_LegalKindModelChangeKeepsState ==
    [][(/\ mounted
        /\ model' # model
        /\ analysisType \in SetOf(getAvailableAnalysisTypes(model')))
          => UNCHANGED <<analysisType, selections, slots, timers, debounceRef,
                         analysisError>>]_vars

\* The model has changed while audio-features stayed the analysis type: the
\* slot still holds the analysis of request 1, fetched for the previous
\* model, and the timer of the second selection change, started under the
\* previous model, is still pending.
C31_Witness ==
    /\ mounted
    /\ analysisType = "audio-features"
    /\ selectedByAngle # <<>>
    /\ audioFrequencyAnalysis # null
    /\ audioFrequencyAnalysis[1].seq = 1
    /\ \E t \in timers :
          /\ t.id = 2
          /\ t.id = debounceRef
          /\ t.model # model
          /\ t.analysisType = "audio-features"

====
